---- MODULE Spec2Model ----
(***************************************************************************)
(* HTK label refiner (src/htk_label_refiner.py).                           *)
(*                                                                         *)
(* A phoneme token is a sequence of one-character strings, so that         *)
(* str.lower() is a computation on characters.  A time in seconds is a     *)
(* fixed-point number of nanoseconds: the double product ticks * 1e-7 is   *)
(* the correctly rounded value of the exact product, rounding is monotone, *)
(* and so the comparison against the threshold is the comparison of the    *)
(* exact values for every threshold that is itself a whole number of       *)
(* nanoseconds.                                                            *)
(***************************************************************************)
EXTENDS Integers, Sequences, FiniteSets, TLC

VARIABLES
    \* get_phoneme_group applied to one token
    phoneme, group, cpc,
    \* the pass-1 merge decision applied to one pair of groups and one gap
    group1, group2, gap_ticks, gap_limit, decision, dpc,
    \* merge_labels applied to one segment list, then to its own output
    labels, max_gap_seconds, merged, final_merged, pc, round, first_output,
    \* process_lab_files over one batch of label sources
    lab_files, file_idx, written, reported, empties, bpc

vars == <<phoneme, group, cpc,
          group1, group2, gap_ticks, gap_limit, decision, dpc,
          labels, max_gap_seconds, merged, final_merged, pc, round, first_output,
          lab_files, file_idx, written, reported, empties, bpc>>

classifyVars == <<phoneme, group, cpc>>
decisionVars == <<group1, group2, gap_ticks, gap_limit, decision, dpc>>
mergeVars == <<labels, max_gap_seconds, merged, final_merged, pc, round, first_output>>
batchVars == <<lab_files, file_idx, written, reported, empties, bpc>>

\* ------------------------------------------------------------------ bounds
MaxTokenLen == 3
MaxLen == 3
MaxGap == 2
MaxThresholdSteps == 2
MaxFiles == 2
MaxLines == 2

\* ------------------------------------------------------------- str.lower()
UpperChars == <<"A","B","C","D","E","F","G","H","I","J","K","L","M",
                "N","O","P","Q","R","S","T","U","V","W","X","Y","Z">>
LowerChars == <<"a","b","c","d","e","f","g","h","i","j","k","l","m",
                "n","o","p","q","r","s","t","u","v","w","x","y","z">>

LowerChar(c) ==
    IF \E k \in 1..Len(UpperChars) : UpperChars[k] = c
    THEN LowerChars[CHOOSE k \in 1..Len(UpperChars) : UpperChars[k] = c]
    ELSE c

Lower(tok) == [k \in 1..Len(tok) |-> LowerChar(tok[k])]

\* ---------------------------------------------------------- PHONEME_GROUPS
\* The dict in insertion order, which is the order .items() iterates in.
PHONEME_GROUPS == <<
    [name |-> "sibilants",
     phonemes |-> << <<"s">>, <<"z">>, <<"s","h">>, <<"z","h">>, <<"t","s">>,
                     <<"d","z">>, <<"c","h">>, <<"d","j">>, <<"x">> >>],
    [name |-> "vowels",
     phonemes |-> << <<"a">>, <<"e">>, <<"i">>, <<"o">>, <<"u">>, <<"N">> >>],
    [name |-> "consonants",
     phonemes |-> << <<"b">>, <<"c">>, <<"d">>, <<"f">>, <<"g">>, <<"h">>,
                     <<"j">>, <<"k">>, <<"l">>, <<"m">>, <<"n">>, <<"p">>,
                     <<"q">>, <<"r">>, <<"t">>, <<"v">>, <<"w">> >>],
    [name |-> "liquids",
     phonemes |-> << <<"l">>, <<"r">> >>],
    [name |-> "nasals",
     phonemes |-> << <<"m">>, <<"n">>, <<"n","g">> >>],
    [name |-> "stops",
     phonemes |-> << <<"p">>, <<"b">>, <<"t">>, <<"d">>, <<"k">>, <<"g">> >>],
    [name |-> "fricatives",
     phonemes |-> << <<"f">>, <<"v">>, <<"t","h">>, <<"d","h">>, <<"s">>,
                     <<"z">>, <<"s","h">>, <<"z","h">>, <<"h">> >>],
    [name |-> "silence",
     phonemes |-> << <<"p","a","u">>, <<"s","i","l">>, <<"S","P">> >>],
    [name |-> "special",
     phonemes |-> << <<"c","l">>, <<"v","f">> >>] >>

\* x in list
InList(x, list) == \E k \in 1..Len(list) : list[k] = x

\* PHONEME_GROUPS[name]
GroupPhonemes(name) ==
    PHONEME_GROUPS[CHOOSE k \in 1..Len(PHONEME_GROUPS) : PHONEME_GROUPS[k].name = name].phonemes

\* The ten values get_phoneme_group can name.
GroupNames == {PHONEME_GROUPS[k].name : k \in 1..Len(PHONEME_GROUPS)} \cup {"unknown"}

get_phoneme_group(p) ==
    LET phoneme_lower == Lower(p)
        hits == {k \in 1..Len(PHONEME_GROUPS) :
                    InList(phoneme_lower, PHONEME_GROUPS[k].phonemes)}
    IN  IF InList(phoneme_lower, GroupPhonemes("silence"))
        THEN "silence"
        ELSE IF hits # {}
        THEN PHONEME_GROUPS[CHOOSE k \in hits : \A m \in hits : k <= m].name
        ELSE "unknown"

\* -------------------------------------------------------- time conversion
\* 1e-7 seconds, in nanoseconds
NsPerTick == 100

\* int(htk_time) * 1e-8 (mutant)
convert_htk_time_to_seconds_tenth(htk_time) == htk_time * (NsPerTick \div 10)

convert_htk_time_to_seconds(htk_time) == htk_time * NsPerTick

\* ------------------------------------------------------------ merge rules
\* merge_rules with one cross-group pair added (mutant)
merge_rules_cross ==
    {<<"vowels", "vowels">>, <<"consonants", "consonants">>,
     <<"silence", "silence">>, <<"sibilants", "sibilants">>,
     <<"liquids", "liquids">>, <<"nasals", "nasals">>, <<"stops", "stops">>,
     <<"fricatives", "fricatives">>, <<"special", "special">>,
     <<"vowels", "consonants">>}

merge_rules ==
    {<<"vowels", "vowels">>, <<"consonants", "consonants">>,
     <<"silence", "silence">>, <<"sibilants", "sibilants">>,
     <<"liquids", "liquids">>, <<"nasals", "nasals">>, <<"stops", "stops">>,
     <<"fricatives", "fricatives">>, <<"special", "special">>}

should_merge_phonemes(phoneme1, phoneme2, g1, g2) ==
    IF g1 = g2
    THEN TRUE
    ELSE <<g1, g2>> \in merge_rules \/ <<g2, g1>> \in merge_rules

\* The condition of the if in the pass-1 loop: the gap test and the group test.
MergeCondition(gap, max_gap, phoneme1, phoneme2, g1, g2) ==
    /\ convert_htk_time_to_seconds(gap) <= max_gap
    /\ should_merge_phonemes(phoneme1, phoneme2, g1, g2)

\* ------------------------------------------------------------ merge_labels
SP == <<"S", "P">>

\* labels[i].copy().  src is a history field: the index of the input segment
\* the copy was taken from.  It is no data of the program; Strip removes it.
Copy(list, i) ==
    [start |-> list[i].start, end |-> list[i].end,
     phoneme |-> list[i].phoneme, src |-> i]

Strip(list) ==
    [k \in 1..Len(list) |->
        [start |-> list[k].start, end |-> list[k].end, phoneme |-> list[k].phoneme]]

\* finalize: the silence relabel in front of merged.append(current_label)
Relabel(current_label, current_group) ==
    IF current_group = "silence"
    THEN [current_label EXCEPT !.phoneme = SP]
    ELSE current_label

\* One iteration of the pass-1 loop that merges without extending the end (mutant).
Pass1Step_no_extend(st, list, i, max_gap) ==
    LET next_label == list[i]
        next_group == get_phoneme_group(next_label.phoneme)
        gap == next_label.start - st.current_label.end
    IN  IF MergeCondition(gap, max_gap, st.current_label.phoneme,
                          next_label.phoneme, st.current_group, next_group)
        THEN [st EXCEPT !.current_label =
                Relabel(st.current_label, st.current_group)]
        ELSE [merged |-> Append(st.merged, Relabel(st.current_label, st.current_group)),
              current_label |-> Copy(list, i),
              current_group |-> next_group]

\* One iteration of the pass-1 loop, for labels[i].
Pass1Step(st, list, i, max_gap) ==
    LET next_label == list[i]
        next_group == get_phoneme_group(next_label.phoneme)
        gap == next_label.start - st.current_label.end
    IN  IF MergeCondition(gap, max_gap, st.current_label.phoneme,
                          next_label.phoneme, st.current_group, next_group)
        THEN [st EXCEPT !.current_label =
                IF st.current_group = "silence" /\ next_group = "silence"
                THEN [@ EXCEPT !.end = next_label.end, !.phoneme = SP]
                ELSE [@ EXCEPT !.end = next_label.end]]
        ELSE [merged |-> Append(st.merged, Relabel(st.current_label, st.current_group)),
              current_label |-> Copy(list, i),
              current_group |-> next_group]

RECURSIVE Pass1Loop(_, _, _, _)
Pass1Loop(st, list, i, max_gap) ==
    IF i > Len(list)
    THEN st
    ELSE Pass1Loop(Pass1Step(st, list, i, max_gap), list, i + 1, max_gap)

\* The end of pass 1 without the silence relabel of the trailing label (mutant).
Pass1Finish_no_relabel(st) == Append(st.merged, st.current_label)

\* After the loop: relabel and append the trailing current_label.
Pass1Finish(st) == Append(st.merged, Relabel(st.current_label, st.current_group))

\* Pass 1 of merge_labels, for a non-empty list: the merged list.
Pass1(list, max_gap) ==
    Pass1Finish(Pass1Loop([merged |-> <<>>,
                           current_label |-> Copy(list, 1),
                           current_group |-> get_phoneme_group(list[1].phoneme)],
                          list, 2, max_gap))

\* The inner while of pass 2: absorb merged[j], merged[j+1], ... while they are SP.
RECURSIVE Pass2Absorb(_, _, _)
Pass2Absorb(list, current_label, j) ==
    IF j <= Len(list) /\ list[j].phoneme = SP
    THEN Pass2Absorb(list, [current_label EXCEPT !.end = list[j].end], j + 1)
    ELSE [current_label |-> current_label, j |-> j]

\* Pass 2 that skips the SP run without extending the end (mutant).
RECURSIVE Pass2Loop_no_extend(_, _, _)
Pass2Loop_no_extend(list, i, final) ==
    IF i > Len(list)
    THEN final
    ELSE IF list[i].phoneme = SP
         THEN Pass2Loop_no_extend(list, Pass2Absorb(list, list[i], i + 1).j,
                                  Append(final, list[i]))
         ELSE Pass2Loop_no_extend(list, i + 1, Append(final, list[i]))

\* Pass 2 that copies every entry through (mutant).
RECURSIVE Pass2Loop_copy(_, _, _)
Pass2Loop_copy(list, i, final) ==
    IF i > Len(list)
    THEN final
    ELSE Pass2Loop_copy(list, i + 1, Append(final, list[i]))

\* The outer while of pass 2.
RECURSIVE Pass2Loop(_, _, _)
Pass2Loop(list, i, final) ==
    IF i > Len(list)
    THEN final
    ELSE IF list[i].phoneme = SP
         THEN LET r == Pass2Absorb(list, list[i], i + 1)
              IN  Pass2Loop(list, r.j, Append(final, r.current_label))
         ELSE Pass2Loop(list, i + 1, Append(final, list[i]))

Pass2(list) == Pass2Loop(list, 1, <<>>)

merge_labels(list, max_gap) ==
    IF list = <<>> THEN list ELSE Pass2(Pass1(list, max_gap))

\* ---------------------------------------------------------- parse_lab_file
\* A line after strip() and split(): the number of fields, whether int() takes
\* the first and the second field, and what the first three fields hold.
BlankLine == [fields |-> 0, start_int |-> FALSE, end_int |-> FALSE,
              start |-> 0, end |-> 0, phoneme |-> <<>>]
ShortLine == [fields |-> 2, start_int |-> TRUE, end_int |-> TRUE,
              start |-> 0, end |-> 1, phoneme |-> <<>>]
BadLine == [fields |-> 3, start_int |-> FALSE, end_int |-> TRUE,
            start |-> 0, end |-> 1, phoneme |-> <<"p","a","u">>]
GoodLine == [fields |-> 3, start_int |-> TRUE, end_int |-> TRUE,
             start |-> 0, end |-> 1, phoneme |-> <<"p","a","u">>]

Lines == {BlankLine, ShortLine, BadLine, GoodLine}

\* The for loop of parse_lab_file from line k on; int() raising ends it.
RECURSIVE ParseLoop(_, _, _)
ParseLoop(lines, k, acc) ==
    IF k > Len(lines)
    THEN [raised |-> FALSE, labels |-> acc]
    ELSE LET line == lines[k]
         IN  IF line.fields = 0 \/ line.fields < 3
             THEN ParseLoop(lines, k + 1, acc)
             ELSE IF ~line.start_int \/ ~line.end_int
             THEN [raised |-> TRUE, labels |-> <<>>]
             ELSE ParseLoop(lines, k + 1,
                            Append(acc, [start |-> line.start, end |-> line.end,
                                         phoneme |-> line.phoneme]))

parse_lab_file(lines) == ParseLoop(lines, 1, <<>>)

\* ------------------------------------------------------------------ inputs
\* Tokens over which get_phoneme_group is exercised.
TokenAlphabet == {"p", "a", "u", "s", "i", "l", "S", "P", "N", "n", "g",
                  "t", "h", "c", "U", "x"}

TokensUpTo(n) == UNION {[1..m -> TokenAlphabet] : m \in 1..n}

\* Tokens of the segment lists: a silence marker, the literal SP, two sibilants
\* and a token of no group.
ListTokens == {<<"p","a","u">>, SP, <<"s">>, <<"z">>, <<"x","x">>}

\* next.start - prev.end, in ticks; -1 is an overlap.
Gaps == (-1)..MaxGap

\* max_gap_seconds, in nanoseconds, in steps of half a tick
Thresholds == {k * (NsPerTick \div 2) : k \in 0..MaxThresholdSteps}

\* The list whose k-th segment has token toks[k], starts gaps[k] ticks after the
\* end of the one before it (the first at gaps[1]) and lasts one tick.
RECURSIVE EndOf(_, _)
EndOf(gaps, k) == IF k = 0 THEN 0 ELSE EndOf(gaps, k - 1) + gaps[k] + 1

BuildLabels(toks, gaps) ==
    [k \in 1..Len(toks) |->
        [start |-> EndOf(gaps, k) - 1, end |-> EndOf(gaps, k), phoneme |-> toks[k]]]

\* The segment lists of n segments.
InputLists(n) ==
    {BuildLabels(toks, gaps) :
        toks \in [1..n -> ListTokens],
        gaps \in {g \in [1..n -> Gaps] : n = 0 \/ g[1] = 0}}

\* The label sources of n lines, and the batches of n sources.
Sources(n) == [1..n -> Lines]

Batches(n) == [1..n -> UNION {Sources(m) : m \in 0..MaxLines}]

\* ------------------------------------------------------------ idle values
ClassifyIdle == phoneme = <<>> /\ group = "" /\ cpc = "idle"
DecisionIdle ==
    /\ group1 = "" /\ group2 = "" /\ gap_ticks = 0 /\ gap_limit = 0
    /\ decision = FALSE /\ dpc = "idle"
MergeIdle ==
    /\ labels = <<>> /\ max_gap_seconds = 0 /\ merged = <<>> /\ final_merged = <<>>
    /\ pc = "idle" /\ round = 0 /\ first_output = <<>>
BatchIdle ==
    /\ lab_files = <<>> /\ file_idx = 0 /\ written = <<>> /\ reported = {}
    /\ empties = {} /\ bpc = "idle"

\* ------------------------------------------------------- get_phoneme_group
InitClassify ==
    /\ phoneme \in TokensUpTo(MaxTokenLen)
    /\ group = ""
    /\ cpc = "call"
    /\ DecisionIdle /\ MergeIdle /\ BatchIdle

Classify ==
    /\ cpc = "call"
    /\ group' = get_phoneme_group(phoneme)
    /\ cpc' = "returned"
    /\ UNCHANGED <<phoneme, decisionVars, mergeVars, batchVars>>

NextClassify == Classify

SpecClassify == InitClassify /\ [][NextClassify]_vars

\* ------------------------------------------------ the pass-1 merge decision
InitDecision ==
    /\ group1 \in GroupNames
    /\ group2 \in GroupNames
    /\ gap_ticks \in Gaps
    /\ gap_limit \in Thresholds
    /\ decision = FALSE
    /\ dpc = "call"
    /\ ClassifyIdle /\ MergeIdle /\ BatchIdle

Decide ==
    /\ dpc = "call"
    /\ decision' = MergeCondition(gap_ticks, gap_limit, <<>>, <<>>, group1, group2)
    /\ dpc' = "returned"
    /\ UNCHANGED <<group1, group2, gap_ticks, gap_limit, classifyVars, mergeVars, batchVars>>

NextDecision == Decide

SpecDecision == InitDecision /\ [][NextDecision]_vars

\* ------------------------------------------------------------ merge_labels
Init ==
    /\ \E n \in 0..MaxLen : labels \in InputLists(n)
    /\ max_gap_seconds \in Thresholds
    /\ merged = <<>>
    /\ final_merged = <<>>
    /\ pc = "start"
    /\ round = 1
    /\ first_output = <<>>
    /\ ClassifyIdle /\ DecisionIdle /\ BatchIdle

\* if not labels: return labels
ReturnEmpty ==
    /\ pc = "start"
    /\ labels = <<>>
    /\ final_merged' = labels
    /\ pc' = "done"
    /\ UNCHANGED <<labels, max_gap_seconds, merged, round, first_output,
                   classifyVars, decisionVars, batchVars>>

FirstPass ==
    /\ pc = "start"
    /\ labels # <<>>
    /\ merged' = Pass1(labels, max_gap_seconds)
    /\ pc' = "pass2"
    /\ UNCHANGED <<labels, max_gap_seconds, final_merged, round, first_output,
                   classifyVars, decisionVars, batchVars>>

SecondPass ==
    /\ pc = "pass2"
    /\ final_merged' = Pass2(merged)
    /\ pc' = "done"
    /\ UNCHANGED <<labels, max_gap_seconds, merged, round, first_output,
                   classifyVars, decisionVars, batchVars>>

\* The caller hands the returned list to merge_labels again, same threshold.
Reapply ==
    /\ pc = "done"
    /\ round = 1
    /\ first_output' = Strip(final_merged)
    /\ labels' = Strip(final_merged)
    /\ merged' = <<>>
    /\ final_merged' = <<>>
    /\ round' = 2
    /\ pc' = "start"
    /\ UNCHANGED <<max_gap_seconds, classifyVars, decisionVars, batchVars>>

Next == ReturnEmpty \/ FirstPass \/ SecondPass \/ Reapply

Spec == Init /\ [][Next]_vars

\* ------------------------------------------------------- process_lab_files
InitBatch ==
    /\ \E n \in 0..MaxFiles : lab_files \in Batches(n)
    /\ file_idx = 1
    /\ written = <<>>
    /\ reported = {}
    /\ empties = {}
    /\ bpc = "start"
    /\ ClassifyIdle /\ DecisionIdle
    /\ labels = <<>> /\ max_gap_seconds = NsPerTick /\ merged = <<>>
    /\ final_merged = <<>> /\ pc = "idle" /\ round = 0 /\ first_output = <<>>

\* if not lab_files: return
NoLabFiles ==
    /\ bpc = "start"
    /\ lab_files = <<>>
    /\ bpc' = "returned"
    /\ UNCHANGED <<lab_files, file_idx, written, reported, empties,
                   classifyVars, decisionVars, mergeVars>>

EnterLoop ==
    /\ bpc = "start"
    /\ lab_files # <<>>
    /\ bpc' = "loop"
    /\ UNCHANGED <<lab_files, file_idx, written, reported, empties,
                   classifyVars, decisionVars, mergeVars>>

\* The loop body for a source whose parse raises, made to leave the loop (mutant).
ProcessFileError_abort ==
    /\ bpc = "loop"
    /\ file_idx <= Len(lab_files)
    /\ parse_lab_file(lab_files[file_idx]).raised
    /\ reported' = reported \cup {file_idx}
    /\ file_idx' = Len(lab_files) + 1
    /\ UNCHANGED <<lab_files, written, empties, bpc,
                   classifyVars, decisionVars, mergeVars>>

\* The loop body for a source whose parse raises: except Exception.
ProcessFileError ==
    /\ bpc = "loop"
    /\ file_idx <= Len(lab_files)
    /\ parse_lab_file(lab_files[file_idx]).raised
    /\ reported' = reported \cup {file_idx}
    /\ file_idx' = file_idx + 1
    /\ UNCHANGED <<lab_files, written, empties, bpc,
                   classifyVars, decisionVars, mergeVars>>

\* The loop body for a source with no label: continue.
ProcessFileEmpty ==
    /\ bpc = "loop"
    /\ file_idx <= Len(lab_files)
    /\ LET r == parse_lab_file(lab_files[file_idx])
       IN  ~r.raised /\ r.labels = <<>>
    /\ empties' = empties \cup {file_idx}
    /\ file_idx' = file_idx + 1
    /\ UNCHANGED <<lab_files, written, reported, bpc,
                   classifyVars, decisionVars, mergeVars>>

\* The loop body for a source with labels: merge and write.
ProcessFileWrite ==
    /\ bpc = "loop"
    /\ file_idx <= Len(lab_files)
    /\ LET r == parse_lab_file(lab_files[file_idx])
       IN  /\ ~r.raised
           /\ r.labels # <<>>
           /\ written' = (file_idx :> Strip(merge_labels(r.labels, max_gap_seconds)))
                            @@ written
    /\ file_idx' = file_idx + 1
    /\ UNCHANGED <<lab_files, reported, empties, bpc,
                   classifyVars, decisionVars, mergeVars>>

\* The loop is over: "Merging completed".
Finish ==
    /\ bpc = "loop"
    /\ file_idx > Len(lab_files)
    /\ bpc' = "completed"
    /\ UNCHANGED <<lab_files, file_idx, written, reported, empties,
                   classifyVars, decisionVars, mergeVars>>

NextBatch ==
    \/ NoLabFiles \/ EnterLoop \/ ProcessFileError \/ ProcessFileEmpty
    \/ ProcessFileWrite \/ Finish

SpecBatch == InitBatch /\ [][NextBatch]_vars

\* ================================================================ claims
\* The gap between labels[i] and labels[i+1], in nanoseconds.
GapAfter(i) == (labels[i + 1].start - labels[i].end) * NsPerTick

GroupAt(i) == get_phoneme_group(labels[i].phoneme)

\* labels[i] closes one entry of list and labels[i+1] opens the next one.
SeparateIn(list, i) ==
    \E k \in 1..(Len(list) - 1) :
        list[k + 1].src = i + 1 /\ list[k].end = labels[i].end

\* After pass 1, the entry closed by labels[i] and the one opened by
\* labels[i+1] are both labelled SP.
BothSPAfterPass1(i) ==
    \E k \in 1..(Len(merged) - 1) :
        merged[k + 1].src = i + 1 /\ merged[k].phoneme = SP /\ merged[k + 1].phoneme = SP

InContract(list) ==
    /\ \A k \in 1..Len(list) : list[k].end >= list[k].start
    /\ \A k \in 1..(Len(list) - 1) : list[k + 1].start >= list[k].end

\* C1: merging the output of merge_labels again, with the same threshold,
\* returns the same list.
C1_Idempotent ==
    (round = 2 /\ pc = "done") => Strip(final_merged) = first_output

\* C2 (as stated): two adjacent input segments whose gap exceeds the threshold
\* are separate entries of the final output, whatever their groups.
C2_NoMergeAcrossLargeGap ==
    pc = "done" =>
        \A i \in 1..(Len(labels) - 1) :
            GapAfter(i) > max_gap_seconds => SeparateIn(final_merged, i)

\* C2 (amended): two adjacent input segments whose gap exceeds the threshold
\* are never merged by pass 1, and they are separate entries of the final
\* output exactly when their two pass-1 entries are not both labelled SP.
C2_LargeGapJoinedOnlyAsSP ==
    /\ pc \in {"pass2", "done"} =>
        \A i \in 1..(Len(labels) - 1) :
            GapAfter(i) > max_gap_seconds => SeparateIn(merged, i)
    /\ pc = "done" =>
        \A i \in 1..(Len(labels) - 1) :
            GapAfter(i) > max_gap_seconds =>
                (SeparateIn(final_merged, i) <=> ~BothSPAfterPass1(i))

\* A list with two gaps above the threshold, one kept and one closed by pass 2.
C2_Witness ==
    /\ pc = "done"
    /\ \E i, j \in 1..(Len(labels) - 1) :
        /\ GapAfter(i) > max_gap_seconds /\ GapAfter(j) > max_gap_seconds
        /\ SeparateIn(final_merged, i) /\ ~BothSPAfterPass1(i)
        /\ ~SeparateIn(final_merged, j) /\ BothSPAfterPass1(j)

\* C3: two adjacent input segments of different groups are separate entries
\* of the final output, even at gap zero.
C3_NoMergeAcrossGroups ==
    pc = "done" =>
        \A i \in 1..(Len(labels) - 1) :
            GroupAt(i) # GroupAt(i + 1) =>
                \E k \in 1..Len(final_merged) : final_merged[k].src = i + 1

\* C4: two segments of one group whose gap is at most the threshold come out
\* as one segment from the start of the first to the end of the second, named
\* after the first, or SP for silence.
C4_PairMerges ==
    (/\ pc = "done"
     /\ Len(labels) = 2
     /\ GroupAt(1) = GroupAt(2)
     /\ GapAfter(1) <= max_gap_seconds)
    => Strip(final_merged) =
         << [start |-> labels[1].start, end |-> labels[2].end,
             phoneme |-> IF GroupAt(1) = "silence" THEN SP ELSE labels[1].phoneme] >>

C4_Witness ==
    /\ pc = "done"
    /\ round = 1
    /\ Len(labels) = 2
    /\ GroupAt(1) = "sibilants" /\ GroupAt(2) = "sibilants"
    /\ labels[1].phoneme # labels[2].phoneme
    /\ GapAfter(1) <= max_gap_seconds
    /\ GapAfter(1) > 0
    /\ Len(final_merged) = 1

\* C6: the returned list has no two consecutive segments both named SP.
C6_NoAdjacentSP ==
    pc = "done" =>
        \A k \in 1..(Len(final_merged) - 1) :
            ~(final_merged[k].phoneme = SP /\ final_merged[k + 1].phoneme = SP)

\* Pass 1 left three SP entries in a row, and pass 2 made them one.
C6_Witness ==
    /\ pc = "done"
    /\ Len(merged) = 3
    /\ \A k \in 1..3 : merged[k].phoneme = SP
    /\ Len(final_merged) = 1

\* C7: an output segment that starts from a silence input segment is named
\* SP, and no output segment is named pau or sil in any letter case.
C7_SilenceCanonical ==
    pc = "done" =>
        \A k \in 1..Len(final_merged) :
            /\ GroupAt(final_merged[k].src) = "silence" => final_merged[k].phoneme = SP
            /\ Lower(final_merged[k].phoneme) \notin {<<"p","a","u">>, <<"s","i","l">>}

\* A lone silence segment between two others, finalized unmerged as SP.
C7_Witness ==
    /\ pc = "done"
    /\ round = 1
    /\ Len(labels) = 3
    /\ GroupAt(1) # "silence" /\ GroupAt(2) = "silence" /\ GroupAt(3) = "sibilants"
    /\ labels[1].phoneme # SP
    /\ Len(final_merged) = 3
    /\ final_merged[2].phoneme = SP

\* C8: for an in-contract input the output is no longer than the input, empty
\* iff the input is, spans the same time and is still ordered.
C8_LengthAndSpan ==
    (pc = "done" /\ InContract(labels)) =>
        /\ Len(final_merged) <= Len(labels)
        /\ (final_merged = <<>>) <=> (labels = <<>>)
        /\ labels # <<>> =>
            /\ final_merged[1].start = labels[1].start
            /\ final_merged[Len(final_merged)].end = labels[Len(labels)].end
        /\ \A k \in 1..(Len(final_merged) - 1) :
            final_merged[k + 1].start >= final_merged[k].end

\* Three in-contract segments come out as two, the last one made by pass 2.
C8_Witness ==
    /\ pc = "done"
    /\ round = 1
    /\ InContract(labels)
    /\ Len(labels) = 3
    /\ Len(merged) = 3
    /\ Len(final_merged) = 2
    /\ final_merged[2].end = labels[3].end

\* The classification the specification gives: a silence marker compared in
\* lower case on both sides, else the first group in declaration order with a
\* member equal to the token case-insensitively, else unknown.
SpecifiedGroup(p) ==
    LET hits == {k \in 1..Len(PHONEME_GROUPS) :
                    \E m \in 1..Len(PHONEME_GROUPS[k].phonemes) :
                        Lower(PHONEME_GROUPS[k].phonemes[m]) = Lower(p)}
    IN  IF \E m \in 1..Len(GroupPhonemes("silence")) :
                Lower(GroupPhonemes("silence")[m]) = Lower(p)
        THEN "silence"
        ELSE IF hits # {}
        THEN PHONEME_GROUPS[CHOOSE k \in hits : \A m \in hits : k <= m].name
        ELSE "unknown"

\* C5: get_phoneme_group returns the group the specified decision order
\* gives, so that pau, SIL, SP and sp are all silence.
C5_ClassifiesAsSpecified ==
    cpc = "returned" => group = SpecifiedGroup(phoneme)

\* The source at index k was dealt with as its content asks.
Handled(k) ==
    LET r == parse_lab_file(lab_files[k])
    IN  IF r.raised
        THEN k \in reported /\ k \notin DOMAIN written /\ k \notin empties
        ELSE IF r.labels = <<>>
        THEN k \in empties /\ k \notin DOMAIN written /\ k \notin reported
        ELSE /\ k \in DOMAIN written
             /\ k \notin reported
             /\ written[k] = Strip(merge_labels(r.labels, max_gap_seconds))

\* C9: a source whose parse raises never ends the batch: every source before
\* the loop position has been dealt with, the loop ends only behind the last
\* source, a failing source has no output and every other non-empty one has.
C9_FailureNeverAbortsBatch ==
    /\ bpc = "returned" => lab_files = <<>>
    /\ bpc \in {"loop", "completed"} =>
        /\ file_idx <= Len(lab_files) + 1
        /\ \A k \in 1..Len(lab_files) : k < file_idx => Handled(k)
    /\ bpc = "completed" => file_idx = Len(lab_files) + 1

\* A batch whose first source fails and whose later source is written.
C9_Witness ==
    /\ bpc = "completed"
    /\ \E j, k \in 1..Len(lab_files) :
        /\ j < k
        /\ parse_lab_file(lab_files[j]).raised
        /\ j \in reported
        /\ k \in DOMAIN written

\* C10: the pass-1 decision is true iff the groups are equal and the gap is
\* at most the threshold; the allow-list never admits two different groups.
C10_DecisionIsEqualGroupAndGap ==
    dpc = "returned" =>
        /\ decision <=> (group1 = group2 /\ gap_ticks * NsPerTick <= gap_limit)
        /\ group1 # group2 => ~should_merge_phonemes(<<>>, <<>>, group1, group2)

\* Two different groups, one of them on the allow-list, at a gap within the
\* threshold: the decision is false.
C10_Witness ==
    /\ dpc = "returned"
    /\ group1 = "vowels" /\ group2 = "consonants"
    /\ gap_ticks * NsPerTick <= gap_limit
    /\ ~decision

====
